---- MODULE Spec2Model ----
(***************************************************************************)
(* Model of the pi-hole automation scripts:                                *)
(*   down_alert/scripts/down_alert.py   status-change alerting             *)
(*   monitor/scripts/monitor.py         threshold alerts with hysteresis   *)
(*   maintenance/scripts/maintenance.py maintenance task runner            *)
(*   monitor/scripts/monitor_bot.py     operator control surface           *)
(*                                                                         *)
(* Python dicts are functions over a set of string keys; a key that is     *)
(* missing from a dict is missing from the function's DOMAIN.  An optional *)
(* number (float or None) is a sequence of length 0 or 1.                  *)
(***************************************************************************)
EXTENDS Integers, Sequences, FiniteSets, TLC

\* ------------------------------------------------------------------------
\* Bounds of the model
MaxRuns == 3        \* completed down-alert runs kept in daLog
MaxEvals == 2       \* monitor evaluations in a behaviour
MaxWrites == 2      \* writes of the maintenance state before the last start

\* ------------------------------------------------------------------------
\* State
\* ------------------------------------------------------------------------
\* down_alert.py
VARIABLES
  daFileExists,   \* STATE_FILE.exists()
  daFile,         \* content of down_alert_state.json
  daPc,           \* position of the running invocation
  daTest,         \* TEST_MODE of the running invocation
  daState,        \* the in-memory `state` dict
  daHadFile,      \* whether load_state found a file (history)
  daLoaded,       \* the dict load_state returned (history)
  daObs,          \* <<current_pihole, current_internet>>
  daAlerts,       \* the `alerts` list
  daSends,        \* outcome of each send_telegram call of this run
  daLog,          \* completed runs, newest last (history)
  daCfg,          \* what the latest invocation found as its configuration
  daSteps         \* the steps of the latest invocation, in order (history)

daVars == <<daFileExists, daFile, daPc, daTest, daState, daHadFile, daLoaded,
            daObs, daAlerts, daSends, daLog, daCfg, daSteps>>

\* monitor.py
VARIABLES
  monFileExists,  \* STATE_FILE.exists()
  monFile,        \* content of monitor_state.json
  monPc,          \* position of the running invocation
  monForce,       \* FORCE_CHECK of the running invocation
  monTest,        \* TEST_MODE of the running invocation
  monMetrics,     \* `metrics` in main()
  monState,       \* `state` in main()
  monPrev,        \* `prev_alerts` in main()
  monResult,      \* (send_alert, alerts, alert_msg) returned by check_alerts
  monSend,        \* outcome of the send_telegram call, "none" without one
  monLog,         \* completed evaluations, newest last (history)
  monCfg,         \* what the latest invocation found as its configuration
  monSteps        \* the steps of the latest invocation, in order (history)

monVars == <<monFileExists, monFile, monPc, monForce, monTest, monMetrics,
             monState, monPrev, monResult, monSend, monLog, monCfg,
             monSteps>>

\* maintenance.py
VARIABLES
  mtFileExists,   \* STATE_FILE.exists() for maintenance_state.json
  mtFile,         \* content of maintenance_state.json: task name -> record
  clock,          \* datetime.now(), one tick per write of the state file
  mt,             \* the invocations of maintenance.py, by who launched them
  mtLast          \* per task name, the record written last for it (history)

mtVars == <<mtFileExists, mtFile, clock, mt, mtLast>>

\* monitor_bot.py, the maintenance handlers
VARIABLES
  botPc,          \* position of maintenance_callback
  botTask,        \* query.data
  botTodo,        \* the tasks maintenance_callback has still to run
  botResults,     \* what run_task returned for the tasks run so far
  botSent         \* messages of this handler to the operator, in order

\* monitor_bot.py, the status handler
VARIABLES
  stPc,           \* position of status_command
  stLive,         \* what run_live_check returned
  stSent,         \* replies of this handler to the operator, in order
  stBefore        \* the monitor state file when the query arrived (history)

stVars == <<stPc, stLive, stSent, stBefore>>

botVars == <<botPc, botTask, botTodo, botResults, botSent, stVars>>

vars == <<daVars, monVars, mtVars, botVars>>

\* ------------------------------------------------------------------------
\* config.json as an invocation finds it: complete, not there, or without
\* the bot token or the chat id
ConfigStates == {"ok", "no file", "no credentials"}

\* ------------------------------------------------------------------------
\* Python dict helpers
EmptyDict == <<>>

HasKey(d, k) == k \in DOMAIN d

DictSet(d, k, v) == [x \in (DOMAIN d) \cup {k} |-> IF x = k THEN v ELSE d[x]]

\* keep the last n entries of a log after appending e
Keep(log, e, n) ==
  LET l == Append(log, e)
  IN  IF Len(l) > n THEN SubSeq(l, Len(l) - n + 1, Len(l)) ELSE l

RECURSIVE SeqCount(_, _)
SeqCount(s, S) ==
  IF s = <<>> THEN 0
  ELSE (IF Head(s) \in S THEN 1 ELSE 0) + SeqCount(Tail(s), S)

\* ------------------------------------------------------------------------
\* down_alert.py
\* ------------------------------------------------------------------------

MSG_PIHOLE_UP == "Pi-hole is BACK UP!"
MSG_PIHOLE_DOWN == "Pi-hole is DOWN!"
MSG_NET_RESTORED == "Internet connection RESTORED!"
MSG_NET_LOST == "Internet connection LOST!"

ServiceMsgs == {MSG_PIHOLE_UP, MSG_PIHOLE_DOWN}
InternetMsgs == {MSG_NET_RESTORED, MSG_NET_LOST}

\* "up" if current_pihole else "down"
Label(current_pihole) == IF current_pihole THEN "up" ELSE "down"

\* a default that takes the internet for unreachable until observed
DaDefaultState_InternetFalse == [pihole_status |-> "unknown", internet |-> FALSE]

\* the dict load_state returns when there is no state file
DaDefaultState == [pihole_status |-> "unknown", internet |-> TRUE]

\* load_state(): the file's content as it is, or the default dict
DaLoadState(exists, file) == IF exists THEN file ELSE DaDefaultState

\* a comparison that takes the "unknown" status for no change
DaPiholeChanged_IgnoreUnknown(state, current_pihole) ==
  /\ HasKey(state, "pihole_status")
  /\ state["pihole_status"] # "unknown"
  /\ state["pihole_status"] # Label(current_pihole)

\* state.get("pihole_status") != ("up" if current_pihole else "down")
DaPiholeChanged(state, current_pihole) ==
  ~HasKey(state, "pihole_status") \/ state["pihole_status"] # Label(current_pihole)

\* state.get("internet") != current_internet
DaInternetChanged(state, current_internet) ==
  ~HasKey(state, "internet") \/ state["internet"] # current_internet

\* lines 116-126: the alerts list and the updated state dict
DaDecideAlerts(state, current_pihole, current_internet) ==
  (IF DaPiholeChanged(state, current_pihole)
     THEN <<IF current_pihole THEN MSG_PIHOLE_UP ELSE MSG_PIHOLE_DOWN>>
     ELSE <<>>)
  \o
  (IF DaInternetChanged(state, current_internet)
     THEN <<IF current_internet THEN MSG_NET_RESTORED ELSE MSG_NET_LOST>>
     ELSE <<>>)

\* an update that forgets line 126, state["internet"] = current_internet
DaDecideState_NoInternetUpdate(state, current_pihole, current_internet) ==
  IF DaPiholeChanged(state, current_pihole)
    THEN DictSet(state, "pihole_status", Label(current_pihole))
    ELSE state

DaDecideState(state, current_pihole, current_internet) ==
  LET s1 == IF DaPiholeChanged(state, current_pihole)
              THEN DictSet(state, "pihole_status", Label(current_pihole))
              ELSE state
  IN  IF DaInternetChanged(state, current_internet)
        THEN DictSet(s1, "internet", current_internet)
        ELSE s1

\* state files an invocation can find: written by an earlier run (both
\* fields), or lacking fields (written by another version of the program)
DaStatusValues == {"up", "down", "unknown"}

DaFiles ==
  {EmptyDict}
  \cup {[pihole_status |-> st] : st \in DaStatusValues}
  \cup {[internet |-> b] : b \in BOOLEAN}
  \cup {[pihole_status |-> st, internet |-> b] : st \in DaStatusValues, b \in BOOLEAN}

DaInit ==
  /\ daFileExists \in BOOLEAN
  /\ daFile \in DaFiles
  /\ ~daFileExists => daFile = EmptyDict
  /\ daPc = "idle"
  /\ daTest = FALSE
  /\ daState = EmptyDict
  /\ daHadFile = FALSE
  /\ daLoaded = EmptyDict
  /\ daObs = <<FALSE, FALSE>>
  /\ daAlerts = <<>>
  /\ daSends = <<>>
  /\ daLog = <<>>
  /\ daCfg = "ok"
  /\ daSteps = <<>>

\* lines 26-34: without the configuration file FileNotFoundError is raised,
\* without the telegram keys config["telegram"][...] raises KeyError; the
\* invocation ends there
DaConfigError ==
  /\ daPc = "idle"
  /\ \E c \in ConfigStates \ {"ok"} : daCfg' = c
  /\ daSteps' = <<>>
  /\ UNCHANGED <<daFileExists, daFile, daPc, daTest, daState, daHadFile,
                 daLoaded, daObs, daAlerts, daSends, daLog>>
  /\ UNCHANGED <<monVars, mtVars, botVars>>

\* line 22 and line 112: a new invocation starts and loads the state
DaLoad ==
  /\ daPc = "idle"
  /\ \E test \in BOOLEAN : daTest' = test
  /\ daState' = DaLoadState(daFileExists, daFile)
  /\ daLoaded' = DaLoadState(daFileExists, daFile)
  /\ daHadFile' = daFileExists
  /\ daObs' = <<FALSE, FALSE>>
  /\ daAlerts' = <<>>
  /\ daSends' = <<>>
  /\ daPc' = "loaded"
  /\ daCfg' = "ok"
  /\ daSteps' = <<"load">>
  /\ UNCHANGED <<daFileExists, daFile, daLog>>
  /\ UNCHANGED <<monVars, mtVars, botVars>>

\* lines 113-114: check_pihole() and check_internet(); a probe that raises
\* is caught and reported as False
DaObserve ==
  /\ daPc = "loaded"
  /\ \E current_pihole \in BOOLEAN, current_internet \in BOOLEAN :
       daObs' = <<current_pihole, current_internet>>
  /\ daPc' = "observed"
  /\ daSteps' = Append(daSteps, "observe")
  /\ UNCHANGED <<daFileExists, daFile, daTest, daState, daHadFile, daLoaded,
                 daAlerts, daSends, daLog, daCfg>>
  /\ UNCHANGED <<monVars, mtVars, botVars>>

\* lines 116-126
DaDecide ==
  /\ daPc = "observed"
  /\ daAlerts' = DaDecideAlerts(daState, daObs[1], daObs[2])
  /\ daState' = DaDecideState(daState, daObs[1], daObs[2])
  /\ daPc' = "decided"
  /\ daSteps' = Append(daSteps, "decide")
  /\ UNCHANGED <<daFileExists, daFile, daTest, daHadFile, daLoaded, daObs,
                 daSends, daLog, daCfg>>
  /\ UNCHANGED <<monVars, mtVars, botVars>>

\* send_telegram(): logged only in test mode; otherwise the POST either
\* succeeds or fails (non-200 or exception), and a failure is only logged
DaSendOutcomes(test) == IF test THEN {"test"} ELSE {"sent", "failed"}

\* lines 129-134: one iteration of `for msg in alerts`
DaSend ==
  /\ daPc = "decided"
  /\ Len(daSends) < Len(daAlerts)
  /\ \E o \in DaSendOutcomes(daTest) : daSends' = Append(daSends, o)
  /\ daSteps' = Append(daSteps, "notify")
  /\ UNCHANGED <<daFileExists, daFile, daPc, daTest, daState, daHadFile,
                 daLoaded, daObs, daAlerts, daLog, daCfg>>
  /\ UNCHANGED <<monVars, mtVars, botVars>>

\* a script that saves the state right after deciding, before the alerts
\* are handed to send_telegram
DaSave_Early ==
  /\ daPc = "decided"
  /\ \A j \in 1..Len(daSteps) : daSteps[j] # "persist"
  /\ daFileExists' = TRUE
  /\ daFile' = daState
  /\ daSteps' = Append(daSteps, "persist")
  /\ UNCHANGED <<daPc, daTest, daState, daHadFile, daLoaded, daObs, daAlerts,
                 daSends, daLog, daCfg>>
  /\ UNCHANGED <<monVars, mtVars, botVars>>

\* a script that ends without saving when a message could not be delivered
DaSave_OnlyIfDelivered ==
  /\ daPc = "decided"
  /\ Len(daSends) = Len(daAlerts)
  /\ \A j \in 1..Len(daSends) : daSends[j] # "failed"
  /\ daFileExists' = TRUE
  /\ daFile' = daState
  /\ daLog' = Keep(daLog,
                   [hadFile |-> daHadFile, loaded |-> daLoaded,
                    pihole |-> daObs[1], internet |-> daObs[2],
                    alerts |-> daAlerts, attempts |-> Len(daSends),
                    failed |-> FALSE, saved |-> daState],
                   MaxRuns)
  /\ daPc' = "idle"
  /\ daTest' = FALSE
  /\ daState' = EmptyDict
  /\ daHadFile' = FALSE
  /\ daLoaded' = EmptyDict
  /\ daObs' = <<FALSE, FALSE>>
  /\ daAlerts' = <<>>
  /\ daSends' = <<>>
  /\ daSteps' = Append(daSteps, "persist")
  /\ UNCHANGED daCfg
  /\ UNCHANGED <<monVars, mtVars, botVars>>

\* line 138: save_state(state), and the invocation ends
DaSave ==
  /\ daPc = "decided"
  /\ Len(daSends) = Len(daAlerts)
  /\ daFileExists' = TRUE
  /\ daFile' = daState
  /\ daLog' = Keep(daLog,
                   [hadFile |-> daHadFile, loaded |-> daLoaded,
                    pihole |-> daObs[1], internet |-> daObs[2],
                    alerts |-> daAlerts, attempts |-> Len(daSends),
                    failed |-> (\E j \in 1..Len(daSends) : daSends[j] = "failed"),
                    saved |-> daState],
                   MaxRuns)
  /\ daPc' = "idle"
  /\ daTest' = FALSE
  /\ daState' = EmptyDict
  /\ daHadFile' = FALSE
  /\ daLoaded' = EmptyDict
  /\ daObs' = <<FALSE, FALSE>>
  /\ daAlerts' = <<>>
  /\ daSends' = <<>>
  /\ daSteps' = Append(daSteps, "persist")
  /\ UNCHANGED daCfg
  /\ UNCHANGED <<monVars, mtVars, botVars>>

DaNext == DaConfigError \/ DaLoad \/ DaObserve \/ DaDecide \/ DaSend \/ DaSave

\* ------------------------------------------------------------------------
\* monitor.py
\* ------------------------------------------------------------------------

THRESHOLDS == [cpu |-> 85, ram |-> 90, disk |-> 90, temp |-> 75]

\* the keys of the dict get_metrics returns, in insertion order
MetricKeys == <<"cpu", "ram", "disk", "temp">>

KeySet == {MetricKeys[i] : i \in 1..Len(MetricKeys)}

None == <<>>

\* key.upper()
Upper(key) ==
  CASE key = "cpu" -> "CPU"
    [] key = "ram" -> "RAM"
    [] key = "disk" -> "DISK"
    [] key = "temp" -> "TEMP"

\* get_metrics(): psutil always yields cpu, ram and disk; temp is None when
\* no sensor answers.  Values at the limit and just above it.
MetricSamples ==
  [cpu : {<<85>>, <<86>>}, ram : {<<90>>, <<91>>}, disk : {<<90>>, <<91>>},
   temp : {None, <<75>>, <<76>>}]

\* load_state() without a state file
MonDefaultState == [metrics |-> EmptyDict, alerts |-> EmptyDict, last_check |-> None]

MonLoadState(exists, file) == IF exists THEN file ELSE MonDefaultState

\* state.get("alerts", {})
GetAlerts(state) == IF HasKey(state, "alerts") THEN state["alerts"] ELSE EmptyDict

\* prev_alerts.get(key, False)
PrevGet(prev_alerts, key) == IF HasKey(prev_alerts, key) THEN prev_alerts[key] ELSE FALSE

\* a comparison that takes a value at the limit for a breach
Exceeds_AtLimit(value, threshold) == value # None /\ value[1] >= threshold

\* line 139: value is not None and value > threshold
Exceeds(value, threshold) == value # None /\ value[1] > threshold

\* the loop of lines 137-145 over the keys from position i on
RECURSIVE CheckLoop(_, _, _, _, _)
CheckLoop(metrics, prev_alerts, force, i, acc) ==
  IF i > Len(MetricKeys) THEN acc
  ELSE
    LET key == MetricKeys[i]
        value == metrics[key]
        threshold == THRESHOLDS[key]
    IN  IF Exceeds(value, threshold)
          THEN CheckLoop(metrics, prev_alerts, force, i + 1,
                 [send_alert |-> acc.send_alert \/ force \/ ~PrevGet(prev_alerts, key),
                  alerts |-> DictSet(acc.alerts, key, TRUE),
                  msg_lines |-> Append(acc.msg_lines, <<Upper(key), value[1], threshold>>)])
          ELSE CheckLoop(metrics, prev_alerts, force, i + 1,
                 [send_alert |-> acc.send_alert,
                  alerts |-> DictSet(acc.alerts, key, FALSE),
                  msg_lines |-> acc.msg_lines])

\* check_alerts that lists only the metrics whose breach is new
CheckAlerts_OnlyNew(metrics, prev_alerts, force) ==
  LET r == CheckLoop(metrics, prev_alerts, force, 1,
                     [send_alert |-> FALSE, alerts |-> EmptyDict,
                      msg_lines |-> <<<<"Monitor Alert">>>>])
      IsNew(l) == \/ Len(l) = 1
                  \/ \E k \in KeySet : Upper(k) = l[1] /\ ~PrevGet(prev_alerts, k)
  IN  [r EXCEPT !.msg_lines = SelectSeq(r.msg_lines, IsNew)]

\* check_alerts that leaves the flags as they were when it is forced
CheckAlerts_ForceKeepsFlags(metrics, prev_alerts, force) ==
  LET r == CheckLoop(metrics, prev_alerts, force, 1,
                     [send_alert |-> FALSE, alerts |-> EmptyDict,
                      msg_lines |-> <<<<"Monitor Alert">>>>])
  IN  IF force THEN [r EXCEPT !.alerts = prev_alerts] ELSE r

\* check_alerts that notifies for every breach, whatever the previous flags
CheckAlerts_NoHysteresis(metrics, prev_alerts, force) ==
  CheckLoop(metrics, EmptyDict, force, 1,
            [send_alert |-> FALSE, alerts |-> EmptyDict,
             msg_lines |-> <<<<"Monitor Alert">>>>])

\* check_alerts that does not look at FORCE_CHECK
CheckAlerts_IgnoreForce(metrics, prev_alerts, force) ==
  CheckLoop(metrics, prev_alerts, FALSE, 1,
            [send_alert |-> FALSE, alerts |-> EmptyDict,
             msg_lines |-> <<<<"Monitor Alert">>>>])

\* check_alerts(metrics, prev_alerts), FORCE_CHECK passed as force
CheckAlerts(metrics, prev_alerts, force) ==
  CheckLoop(metrics, prev_alerts, force, 1,
            [send_alert |-> FALSE, alerts |-> EmptyDict,
             msg_lines |-> <<<<"Monitor Alert">>>>])

NoResult == [send_alert |-> FALSE, alerts |-> EmptyDict, msg_lines |-> <<>>]

MonInit ==
  /\ monFileExists = FALSE
  /\ monFile = EmptyDict
  /\ monPc = "idle"
  /\ monForce = FALSE
  /\ monTest = FALSE
  /\ monMetrics = EmptyDict
  /\ monState = EmptyDict
  /\ monPrev = EmptyDict
  /\ monResult = NoResult
  /\ monSend = "none"
  /\ monLog = <<>>
  /\ monCfg = "ok"
  /\ monSteps = <<>>

\* lines 30-33: without the configuration file the script prints an error
\* and ends with exit status 1
MonAbort ==
  /\ monPc = "idle"
  /\ monCfg' = "no file"
  /\ monSend' = "none"
  /\ monSteps' = <<>>
  /\ UNCHANGED <<monFileExists, monFile, monPc, monForce, monTest, monMetrics,
                 monState, monPrev, monResult, monLog>>

\* an invocation from the command line or the scheduler aborts
MonConfigError == MonAbort /\ UNCHANGED <<daVars, mtVars, botVars>>

\* lines 24-39 and line 152: the invocation starts with its arguments, reads
\* the configuration (missing credentials are read as None) and samples
\* the metrics
MonStart(force, test, m, c) ==
  /\ monPc = "idle"
  /\ Len(monLog) < MaxEvals
  /\ monForce' = force
  /\ monTest' = test
  /\ monMetrics' = m
  /\ monCfg' = c
  /\ monSend' = "none"
  /\ monSteps' = <<"observe">>
  /\ monPc' = "sampled"
  /\ UNCHANGED <<monFileExists, monFile, monState, monPrev, monResult, monLog>>

\* an invocation from the command line or the scheduler
MonGetMetrics ==
  /\ \E force \in BOOLEAN, test \in BOOLEAN, m \in MetricSamples,
        c \in ConfigStates \ {"no file"} :
       MonStart(force, test, m, c)
  /\ UNCHANGED <<daVars, mtVars, botVars>>

\* lines 153-154
MonLoad ==
  /\ monPc = "sampled"
  /\ monState' = MonLoadState(monFileExists, monFile)
  /\ monPrev' = GetAlerts(MonLoadState(monFileExists, monFile))
  /\ monPc' = "loaded"
  /\ monSteps' = Append(monSteps, "load")
  /\ UNCHANGED <<monFileExists, monFile, monForce, monTest, monMetrics,
                 monResult, monSend, monLog, monCfg>>
  /\ UNCHANGED <<daVars, mtVars, botVars>>

\* line 156
MonCheck ==
  /\ monPc = "loaded"
  /\ monResult' = CheckAlerts(monMetrics, monPrev, monForce)
  /\ monPc' = "checked"
  /\ monSteps' = Append(monSteps, "decide")
  /\ UNCHANGED <<monFileExists, monFile, monForce, monTest, monMetrics,
                 monState, monPrev, monSend, monLog, monCfg>>
  /\ UNCHANGED <<daVars, mtVars, botVars>>

\* lines 158-163: state.update(...) and save_state(state)
MonSave ==
  /\ monPc = "checked"
  /\ LET s1 == DictSet(monState, "metrics", monMetrics)
         s2 == DictSet(s1, "alerts", monResult.alerts)
         s3 == DictSet(s2, "last_check", <<"now">>)
     IN  /\ monState' = s3
         /\ monFile' = s3
  /\ monFileExists' = TRUE
  /\ monPc' = "saved"
  /\ monSteps' = Append(monSteps, "persist")
  /\ UNCHANGED <<monForce, monTest, monMetrics, monPrev, monResult, monSend,
                 monLog, monCfg>>
  /\ UNCHANGED <<daVars, mtVars, botVars>>

\* a send_telegram that does not look for the credentials
MonSendOutcomes_IgnoreCredentials(test, cfg) ==
  IF test THEN {"test"} ELSE {"sent", "failed"}

\* send_telegram(): logged only in test mode, skipped without credentials,
\* otherwise the POST succeeds or fails; a failure is only logged
MonSendOutcomes(test, cfg) ==
  IF test THEN {"test"}
  ELSE IF cfg = "no credentials" THEN {"skipped"}
  ELSE {"sent", "failed"}

\* lines 165-169, and the invocation ends
MonNotify ==
  /\ monPc = "saved"
  /\ \E o \in (IF monResult.send_alert THEN MonSendOutcomes(monTest, monCfg)
                                       ELSE {"none"}) :
       /\ monSend' = o
       /\ monLog' = Append(monLog,
                    [by |-> IF stPc = "waiting" THEN "bot" ELSE "cron",
                     force |-> monForce, metrics |-> monMetrics, prev |-> monPrev,
                     send_alert |-> monResult.send_alert,
                     msg_lines |-> monResult.msg_lines,
                     saved |-> GetAlerts(monFile)])
  /\ monPc' = "idle"
  /\ monSteps' = IF monResult.send_alert THEN Append(monSteps, "notify") ELSE monSteps
  /\ monForce' = FALSE
  /\ monTest' = FALSE
  /\ monMetrics' = EmptyDict
  /\ monState' = EmptyDict
  /\ monPrev' = EmptyDict
  /\ monResult' = NoResult
  /\ UNCHANGED <<monFileExists, monFile, monCfg>>
  /\ UNCHANGED <<daVars, mtVars, botVars>>

MonNext ==
  MonConfigError \/ MonGetMetrics \/ MonLoad \/ MonCheck \/ MonSave \/ MonNotify

\* ------------------------------------------------------------------------
\* maintenance.py
\* ------------------------------------------------------------------------

\* "cron": a scheduled invocation; "bot": the child process of run_task
Procs == {"cron", "bot"}

\* tasks_to_run, in insertion order
TasksToRun == <<"os_update", "pihole_update", "gravity", "clear_logs">>

TaskNames == {TasksToRun[i] : i \in 1..Len(TasksToRun)}

\* choices of --task
TaskChoices == TaskNames \cup {"all"}

\* what Popen and the command do: the launch or the reading of the output
\* raises, or the process ends with an exit status
Outcomes ==
  {[raised |-> TRUE, returncode |-> -1]}
  \cup {[raised |-> FALSE, returncode |-> rc] : rc \in {0, 1}}

\* the captured output of a command, as a token naming it
CommandOutput(task, returncode) ==
  <<"output of", task, IF returncode = 0 THEN "ok" ELSE "error">>

\* str(e)
ExceptionText(task) == <<"exception launching", task>>

\* run_command that swallows the exception and reports a success
RunCommand_SwallowException(task, outcome) ==
  IF outcome.raised
    THEN [success |-> TRUE, output |-> <<>>]
    ELSE IF outcome.returncode # 0
      THEN [success |-> FALSE, output |-> CommandOutput(task, outcome.returncode)]
      ELSE [success |-> TRUE, output |-> CommandOutput(task, outcome.returncode)]

\* run_command that takes every completed process for a success
RunCommand_IgnoreReturnCode(task, outcome) ==
  IF outcome.raised
    THEN [success |-> FALSE, output |-> ExceptionText(task)]
    ELSE [success |-> TRUE, output |-> CommandOutput(task, outcome.returncode)]

\* run_command(cmd, description) for the command of `task`
RunCommand(task, outcome) ==
  IF outcome.raised
    THEN [success |-> FALSE, output |-> ExceptionText(task)]
    ELSE IF outcome.returncode # 0
      THEN [success |-> FALSE, output |-> CommandOutput(task, outcome.returncode)]
      ELSE [success |-> TRUE, output |-> CommandOutput(task, outcome.returncode)]

\* load_state() of maintenance.py and load_maint_state() of the bot
MtLoadState(exists, file) == IF exists THEN file ELSE EmptyDict

\* an update that stops at the first failed result
RECURSIVE UpdateState_StopAtFailure(_, _, _)
UpdateState_StopAtFailure(state, results, now) ==
  IF results = <<>> \/ ~Head(results).success THEN state
  ELSE UpdateState_StopAtFailure(
         DictSet(state, Head(results).name,
                 [last_run |-> now, success |-> Head(results).success,
                  output |-> Head(results).output]),
         Tail(results), now)

\* lines 171-176: for task_name, result in results.items(): state[...] = {...}
RECURSIVE UpdateState(_, _, _)
UpdateState(state, results, now) ==
  IF results = <<>> THEN state
  ELSE UpdateState(
         DictSet(state, Head(results).name,
                 [last_run |-> now, success |-> Head(results).success,
                  output |-> Head(results).output]),
         Tail(results), now)

\* line 180: one summary line per result
RECURSIVE SummaryLines(_)
SummaryLines(results) ==
  IF results = <<>> THEN <<>>
  ELSE <<<<Head(results).name, IF Head(results).success THEN "Success" ELSE "Failed">>>>
       \o SummaryLines(Tail(results))

\* send_telegram() of maintenance.py
MtSendOutcomes(test) == IF test THEN {"test"} ELSE {"sent", "failed"}

MtOff ==
  [pc |-> "off", task |-> "all", test |-> FALSE, state |-> EmptyDict,
   todo |-> <<>>, outcomes |-> <<>>, results |-> <<>>, summary |-> <<>>,
   send |-> "none", exit |-> -1, cfg |-> "ok"]

MtInit ==
  /\ mtFileExists = FALSE
  /\ mtFile = EmptyDict
  /\ clock = 1
  /\ mt = [p \in Procs |-> MtOff]
  /\ mtLast = EmptyDict

\* lines 20-61 and 99: arguments, configuration, load_state().  A missing
\* configuration file ends the invocation with exit status 1; missing
\* credentials turn the test mode on.
MtStart(p, task, test, config) ==
  /\ mt[p].pc \in {"off", "exited"}
  /\ mt' = [mt EXCEPT ![p] =
       IF config # "no file"
         THEN [MtOff EXCEPT !.pc = "loaded", !.task = task,
                 !.test = (test \/ config = "no credentials"),
                 !.cfg = config,
                 !.state = MtLoadState(mtFileExists, mtFile),
                 !.todo = IF task = "all" THEN TasksToRun ELSE <<task>>]
         ELSE [MtOff EXCEPT !.pc = "exited", !.task = task, !.exit = 1,
                 !.cfg = config]]
  /\ UNCHANGED <<mtFileExists, mtFile, clock, mtLast>>

\* history: the records a writer has made for the names of `results`
RECURSIVE NoteWrites(_, _, _, _)
NoteWrites(last, results, now, by) ==
  IF results = <<>> THEN last
  ELSE NoteWrites(
         DictSet(last, Head(results).name,
                 [by |-> by,
                  rec |-> [last_run |-> now, success |-> Head(results).success,
                           output |-> Head(results).output]]),
         Tail(results), now, by)

\* lines 159-167: the next task function is called
MtRunTask(p) ==
  /\ mt[p].pc = "loaded"
  /\ mt[p].todo # <<>>
  /\ \E outcome \in Outcomes :
       LET t == Head(mt[p].todo)
           r == RunCommand(t, outcome)
       IN  mt' = [mt EXCEPT ![p].todo = Tail(@),
                            ![p].outcomes = Append(@, outcome),
                            ![p].results = Append(@, [name |-> t, success |-> r.success,
                                                      output |-> r.output])]
  /\ UNCHANGED <<mtFileExists, mtFile, clock, mtLast>>
  /\ UNCHANGED <<daVars, monVars, botVars>>

\* lines 171-178: the records are set in `state`, which is written
MtSaveState(p) ==
  /\ mt[p].pc = "loaded"
  /\ mt[p].todo = <<>>
  /\ LET s == UpdateState(mt[p].state, mt[p].results, clock)
     IN  /\ mt' = [mt EXCEPT ![p].state = s, ![p].pc = "saved"]
         /\ mtFile' = s
  /\ mtLast' = NoteWrites(mtLast, mt[p].results, clock, p)
  /\ mtFileExists' = TRUE
  /\ clock' = clock + 1
  /\ UNCHANGED <<daVars, monVars, botVars>>

\* lines 180-183: the summary is sent and the script ends, exit status 0
MtSummary(p) ==
  /\ mt[p].pc = "saved"
  /\ \E o \in MtSendOutcomes(mt[p].test) :
       mt' = [mt EXCEPT ![p].summary = SummaryLines(mt[p].results),
                        ![p].send = o, ![p].exit = 0, ![p].pc = "exited"]
  /\ UNCHANGED <<mtFileExists, mtFile, clock, mtLast>>
  /\ UNCHANGED <<daVars, monVars, botVars>>

\* a scheduled invocation of maintenance.py
CronStart ==
  /\ clock <= MaxWrites
  /\ \E task \in TaskChoices, test \in BOOLEAN, config \in ConfigStates :
       MtStart("cron", task, test, config)
  /\ UNCHANGED <<daVars, monVars, botVars>>

CronNext ==
  \/ CronStart
  \/ MtRunTask("cron")
  \/ MtSaveState("cron")
  \/ MtSummary("cron")

\* ------------------------------------------------------------------------
\* monitor_bot.py: the maintenance handlers
\* ------------------------------------------------------------------------

\* line 208: the order in which the handler runs the tasks of `all`
BotAllTasks == <<"os_update", "gravity", "pihole_update", "clear_logs">>

\* log_task(): the log file is named after the task and the time
LogFile(task, now) == <<task, now>>

\* result.stdout.strip() + stderr of the child, as a token naming it
ChildOutput(task, returncode) ==
  <<"output of maintenance.py --task", task, IF returncode = 0 THEN "exit 0" ELSE "exit 1">>

\* str(e) of the exception subprocess.run raised
SpawnErrorText(task) == <<"exception running maintenance.py --task", task>>

\* a save_maint_state that writes the new record alone, without reading
\* the file first
SaveMaintState_DropOthers(exists, file, task_name, success, output, now) ==
  DictSet(EmptyDict, task_name,
          [last_run |-> now, success |-> success, output |-> output])

\* save_maint_state(task_name, success, output)
SaveMaintState(exists, file, task_name, success, output, now) ==
  DictSet(MtLoadState(exists, file), task_name,
          [last_run |-> now, success |-> success, output |-> output])

\* line 216: (output[:4000] + '...') if len(output) > 4000 else output
Truncate(output) ==
  IF Len(output) > 4000 THEN Append(SubSeq(output, 1, 4000), "...") ELSE output

\* '✅' if s else '❌'
Mark(success) == IF success THEN "ok" ELSE "failed"

\* line 211: the summary lines of `all`
RECURSIVE BotSummary(_)
BotSummary(results) ==
  IF results = <<>> THEN <<>>
  ELSE <<<<Head(results).name, Mark(Head(results).success), Head(results).log_file>>>>
       \o BotSummary(Tail(results))

BotInit ==
  /\ botPc = "idle"
  /\ botTask = "all"
  /\ botTodo = <<>>
  /\ botResults = <<>>
  /\ botSent = <<>>
  /\ stPc = "idle"
  /\ stLive = FALSE
  /\ stSent = <<>>
  /\ stBefore = [exists |-> FALSE, file |-> EmptyDict]

\* lines 201-204: the operator selects a task; query.answer() and the
\* "Running ..." message acknowledge it
BotCallback ==
  /\ botPc = "idle"
  /\ clock <= MaxWrites
  /\ \E task \in TaskChoices :
       /\ botTask' = task
       /\ botTodo' = IF task = "all" THEN BotAllTasks ELSE <<task>>
       /\ botSent' = <<[kind |-> "running", task |-> task, lines |-> <<>>, output |-> <<>>]>>
  /\ botResults' = <<>>
  /\ botPc' = "running"
  /\ UNCHANGED mtVars
  /\ UNCHANGED <<daVars, monVars, stVars>>

\* lines 147-149: run_task starts maintenance.py for the next task, without
\* --test and with the bot's configuration file, which may have gone or
\* lost the chat id since the bot started
BotSpawn ==
  /\ botPc = "running"
  /\ botTodo # <<>>
  /\ \E config \in ConfigStates : MtStart("bot", Head(botTodo), FALSE, config)
  /\ botPc' = "waiting"
  /\ UNCHANGED <<botTask, botTodo, botResults, botSent>>
  /\ UNCHANGED <<daVars, monVars, stVars>>

\* a run_task without the except branch: the exception ends the handler
BotSpawnFails_Propagates ==
  /\ botPc = "running"
  /\ botTodo # <<>>
  /\ botPc' = "crashed"
  /\ UNCHANGED <<mtVars, botTask, botTodo, botResults, botSent>>
  /\ UNCHANGED <<daVars, monVars, stVars>>

\* lines 155-158: subprocess.run raises
BotSpawnFails ==
  /\ botPc = "running"
  /\ botTodo # <<>>
  /\ LET t == Head(botTodo)
     IN  /\ mtFile' = SaveMaintState(mtFileExists, mtFile, t, FALSE,
                                     SpawnErrorText(t), clock)
         /\ botResults' = Append(botResults,
                                 [name |-> t, success |-> FALSE,
                                  output |-> SpawnErrorText(t),
                                  log_file |-> LogFile(t, clock), ran |-> <<>>])
         /\ mtLast' = NoteWrites(mtLast,
                                 <<[name |-> t, success |-> FALSE,
                                    output |-> SpawnErrorText(t)]>>, clock, "bot")
  /\ mtFileExists' = TRUE
  /\ clock' = clock + 1
  /\ botTodo' = Tail(botTodo)
  /\ UNCHANGED <<mt, botPc, botTask, botSent>>
  /\ UNCHANGED <<daVars, monVars, stVars>>

\* lines 149-154: the child has ended; its exit status decides success, the
\* output is logged and the record of the task is written
BotCollect ==
  /\ botPc = "waiting"
  /\ mt["bot"].pc = "exited"
  /\ LET t == Head(botTodo)
         output == ChildOutput(t, mt["bot"].exit)
         success == (mt["bot"].exit = 0)
     IN  /\ mtFile' = SaveMaintState(mtFileExists, mtFile, t, success, output, clock)
         /\ botResults' = Append(botResults,
                                 [name |-> t, success |-> success, output |-> output,
                                  log_file |-> LogFile(t, clock),
                                  ran |-> mt["bot"].outcomes])
         /\ mtLast' = NoteWrites(mtLast,
                                 <<[name |-> t, success |-> success,
                                    output |-> output]>>, clock, "bot")
  /\ mtFileExists' = TRUE
  /\ clock' = clock + 1
  /\ botTodo' = Tail(botTodo)
  /\ botPc' = "running"
  /\ mt' = [mt EXCEPT !["bot"] = MtOff]
  /\ UNCHANGED <<botTask, botSent>>
  /\ UNCHANGED <<daVars, monVars, stVars>>

\* a handler that sends a result message after every task of the selection
BotReply_PerTask ==
  /\ botPc = "running"
  /\ botResults # <<>>
  /\ Len(botSent) <= Len(botResults)
  /\ botSent' = Append(botSent,
       [kind |-> "single", task |-> botResults[Len(botResults)].name,
        lines |-> <<<<botResults[Len(botResults)].name,
                      Mark(botResults[Len(botResults)].success),
                      botResults[Len(botResults)].log_file>>>>,
        output |-> Truncate(botResults[Len(botResults)].output)])
  /\ botPc' = IF botTodo = <<>> THEN "idle" ELSE "running"
  /\ UNCHANGED <<mtVars, botTask, botTodo, botResults>>
  /\ UNCHANGED <<daVars, monVars, stVars>>

\* lines 211-219: the result is sent to the operator and the handler ends
BotReply ==
  /\ botPc = "running"
  /\ botTodo = <<>>
  /\ botSent' = Append(botSent,
       IF botTask = "all"
         THEN [kind |-> "all", task |-> botTask, lines |-> BotSummary(botResults),
               output |-> <<>>]
         ELSE [kind |-> "single", task |-> botTask,
               lines |-> <<<<botTask, Mark(botResults[1].success),
                             botResults[1].log_file>>>>,
               output |-> Truncate(botResults[1].output)])
  /\ botPc' = "idle"
  /\ UNCHANGED <<mtVars, botTask, botTodo, botResults>>
  /\ UNCHANGED <<daVars, monVars, stVars>>

BotNext ==
  \/ BotCallback
  \/ BotSpawn
  \/ BotSpawnFails
  \/ BotCollect
  \/ BotReply
  \/ MtRunTask("bot")
  \/ MtSaveState("bot")
  \/ MtSummary("bot")

\* ------------------------------------------------------------------------
\* monitor_bot.py: the status handler
\* ------------------------------------------------------------------------

\* metrics.get(key, 'N/A') and state.get("last_check", "N/A")
NA == <<"N/A">>

DictGet(d, k, default) == IF HasKey(d, k) THEN d[k] ELSE default

\* load_monitor_state()
LoadMonitorState(exists, file) == IF exists THEN file ELSE EmptyDict

\* format_metrics(state): the values the message shows
FormatMetrics(state) ==
  LET metrics == DictGet(state, "metrics", EmptyDict)
  IN  [last_check |-> DictGet(state, "last_check", NA),
       cpu |-> DictGet(metrics, "cpu", NA), ram |-> DictGet(metrics, "ram", NA),
       disk |-> DictGet(metrics, "disk", NA), temp |-> DictGet(metrics, "temp", NA)]

NoText == <<>>

\* a status_command that gives up when the live check failed
StatusReplies_GiveUp(live, exists, file) ==
  IF ~live THEN <<[kind |-> "stale", text |-> NoText]>>
  ELSE IF DOMAIN LoadMonitorState(exists, file) = {}
    THEN <<[kind |-> "no state", text |-> NoText]>>
    ELSE <<[kind |-> "metrics", text |-> FormatMetrics(LoadMonitorState(exists, file))]>>

\* lines 165-171: the replies of status_command, in order
StatusReplies(live, exists, file) ==
  LET state == LoadMonitorState(exists, file)
      warning == IF live THEN <<>> ELSE <<[kind |-> "stale", text |-> NoText]>>
  IN  IF DOMAIN state = {}
        THEN Append(warning, [kind |-> "no state", text |-> NoText])
        ELSE Append(warning, [kind |-> "metrics", text |-> FormatMetrics(state)])

\* line 164: /status or /monitor arrives and run_live_check is called
StatusCommand ==
  /\ stPc = "idle"
  /\ monPc = "idle"
  /\ stPc' = "checking"
  /\ stLive' = FALSE
  /\ stSent' = <<>>
  /\ stBefore' = [exists |-> monFileExists, file |-> monFile]
  /\ UNCHANGED <<botPc, botTask, botTodo, botResults, botSent>>
  /\ UNCHANGED <<daVars, monVars, mtVars>>

\* lines 87-94: monitor.py is started with --force, without --test, with
\* the bot's configuration file
StLaunch ==
  /\ stPc = "checking"
  /\ \E m \in MetricSamples, c \in ConfigStates \ {"no file"} :
       MonStart(TRUE, FALSE, m, c)
  /\ stPc' = "waiting"
  /\ UNCHANGED <<stLive, stSent, stBefore>>
  /\ UNCHANGED <<botPc, botTask, botTodo, botResults, botSent>>
  /\ UNCHANGED <<daVars, mtVars>>

\* lines 95-102: the child cannot be started, or it ends with a non-zero
\* exit status because the configuration file has gone
StLaunchFails ==
  /\ stPc = "checking"
  /\ \/ UNCHANGED monVars
     \/ MonAbort
  /\ stLive' = FALSE
  /\ stPc' = "replying"
  /\ UNCHANGED <<stSent, stBefore>>
  /\ UNCHANGED <<botPc, botTask, botTodo, botResults, botSent>>
  /\ UNCHANGED <<daVars, mtVars>>

\* lines 95-99: the child has ended with exit status 0
StCollect ==
  /\ stPc = "waiting"
  /\ monPc = "idle"
  /\ stLive' = TRUE
  /\ stPc' = "replying"
  /\ UNCHANGED <<stSent, stBefore>>
  /\ UNCHANGED <<botPc, botTask, botTodo, botResults, botSent>>
  /\ UNCHANGED <<daVars, monVars, mtVars>>

\* lines 165-171
StatusReply ==
  /\ stPc = "replying"
  /\ stSent' = StatusReplies(stLive, monFileExists, monFile)
  /\ stPc' = "idle"
  /\ UNCHANGED <<stLive, stBefore>>
  /\ UNCHANGED <<botPc, botTask, botTodo, botResults, botSent>>
  /\ UNCHANGED <<daVars, monVars, mtVars>>

\* an invocation of monitor.py by the scheduler, between two status queries
StSchedConfigError == stPc = "idle" /\ MonConfigError

StSchedGetMetrics == stPc = "idle" /\ MonGetMetrics

StatusNext ==
  \/ StatusCommand \/ StLaunch \/ StLaunchFails \/ StCollect \/ StatusReply
  \/ StSchedConfigError \/ StSchedGetMetrics
  \/ MonLoad \/ MonCheck \/ MonSave \/ MonNotify

\* ------------------------------------------------------------------------
\* Specifications
\* ------------------------------------------------------------------------
DaIdle ==
  /\ daFileExists = FALSE
  /\ daFile = EmptyDict
  /\ daPc = "idle"
  /\ daTest = FALSE
  /\ daState = EmptyDict
  /\ daHadFile = FALSE
  /\ daLoaded = EmptyDict
  /\ daObs = <<FALSE, FALSE>>
  /\ daAlerts = <<>>
  /\ daSends = <<>>
  /\ daLog = <<>>
  /\ daCfg = "ok"
  /\ daSteps = <<>>

InitDownAlert == DaInit /\ MonInit /\ MtInit /\ BotInit

InitIdle == DaIdle /\ MonInit /\ MtInit /\ BotInit

\* the scheduled down-alert check alone
SpecDownAlert == InitDownAlert /\ [][DaNext]_vars

\* the scheduled (or forced) monitor check alone
SpecMonitor == InitIdle /\ [][MonNext]_vars

\* scheduled invocations of maintenance.py alone, one after the other
SpecMaint == InitIdle /\ [][CronNext]_vars

\* the control surface handling task selections, with its child processes
SpecBot == InitIdle /\ [][BotNext]_vars

\* status queries of the operator and scheduled monitor checks, one after
\* the other
SpecStatus == InitIdle /\ [][StatusNext]_vars

\* The three scheduled scripts.  They share no file, so a behaviour follows
\* the invocations of one of them: a script starts only while the other two
\* have not run.
DaUntouched == daPc = "idle" /\ daLog = <<>> /\ daCfg = "ok"

MonUntouched == monPc = "idle" /\ monLog = <<>> /\ monCfg = "ok"

MtUntouched == mt["cron"].pc = "off"

OneShotDaConfigError == MonUntouched /\ MtUntouched /\ DaConfigError

OneShotDaLoad == MonUntouched /\ MtUntouched /\ DaLoad

OneShotMonConfigError == DaUntouched /\ MtUntouched /\ MonConfigError

OneShotMonGetMetrics == DaUntouched /\ MtUntouched /\ MonGetMetrics

OneShotCronStart == DaUntouched /\ MonUntouched /\ CronStart

OneShotNext ==
  \/ OneShotDaConfigError \/ OneShotDaLoad
  \/ DaObserve \/ DaDecide \/ DaSend \/ DaSave
  \/ OneShotMonConfigError \/ OneShotMonGetMetrics
  \/ MonLoad \/ MonCheck \/ MonSave \/ MonNotify
  \/ OneShotCronStart
  \/ MtRunTask("cron") \/ MtSaveState("cron") \/ MtSummary("cron")

SpecOneShot == InitIdle /\ [][OneShotNext]_vars

\* The bot alone: task selections and status queries of the operator.  The
\* handlers run one at a time (run_task blocks the event loop, and updates
\* are dispatched one after the other); the two kinds of handler share no
\* file, so a behaviour follows the handlers of one kind.
BotUntouched == botPc = "idle" /\ botSent = <<>>

StUntouched == stPc = "idle" /\ stSent = <<>> /\ MonUntouched

LiveBotCallback == StUntouched /\ BotCallback

LiveStatusCommand == BotUntouched /\ StatusCommand

\* the steps of a handler and of the processes it started
LiveProgress ==
  \/ BotSpawn \/ BotSpawnFails \/ BotCollect \/ BotReply
  \/ MtRunTask("bot") \/ MtSaveState("bot") \/ MtSummary("bot")
  \/ StLaunch \/ StLaunchFails \/ StCollect \/ StatusReply
  \/ MonLoad \/ MonCheck \/ MonSave \/ MonNotify

LiveNext ==
  \/ LiveBotCallback
  \/ BotSpawn \/ BotSpawnFails \/ BotCollect \/ BotReply
  \/ MtRunTask("bot") \/ MtSaveState("bot") \/ MtSummary("bot")
  \/ LiveStatusCommand
  \/ StLaunch \/ StLaunchFails \/ StCollect \/ StatusReply
  \/ MonLoad \/ MonCheck \/ MonSave \/ MonNotify

\* A handler that has started goes on executing, and every process it
\* started goes on to its end; nothing is assumed about when the operator
\* sends a command.
SpecLive == InitIdle /\ [][LiveNext]_vars /\ WF_vars(LiveProgress)

\* ------------------------------------------------------------------------
\* Properties of down_alert.py
\* ------------------------------------------------------------------------
ServiceAlerts(e) == SeqCount(e.alerts, ServiceMsgs)
InternetAlerts(e) == SeqCount(e.alerts, InternetMsgs)

\* C1: in every invocation that follows another one, a service alert is
\* emitted iff the observed label differs from the service status the
\* preceding invocation persisted, an internet alert iff internet_up differs
\* from the persisted internet boolean; so an invocation that repeats the
\* observation of the preceding one emits nothing.
C1_NoDuplicateAlert ==
  \A i \in 1..(Len(daLog) - 1) :
    LET p == daLog[i]
        e == daLog[i + 1]
    IN  /\ HasKey(p.saved, "pihole_status") /\ HasKey(p.saved, "internet")
        /\ ServiceAlerts(e) =
             (IF Label(e.pihole) # p.saved["pihole_status"] THEN 1 ELSE 0)
        /\ InternetAlerts(e) =
             (IF e.internet # p.saved["internet"] THEN 1 ELSE 0)
        /\ Len(e.alerts) = ServiceAlerts(e) + InternetAlerts(e)
        /\ (e.pihole = p.pihole /\ e.internet = p.internet) => e.alerts = <<>>

\* three runs: both domains change in the second, which the third repeats
C1_Witness ==
  /\ Len(daLog) = 3
  /\ Len(daLog[2].alerts) = 2
  /\ daLog[3].pihole = daLog[2].pihole
  /\ daLog[3].internet = daLog[2].internet
  /\ daLog[3].alerts = <<>>

\* C2: a run that finds no state file emits exactly one service alert for
\* either observation of the service, and no internet alert when the
\* internet is observed reachable.
C2_FirstRunSuppression ==
  \A i \in 1..Len(daLog) :
    ~daLog[i].hadFile =>
      /\ ServiceAlerts(daLog[i]) = 1
      /\ daLog[i].internet => InternetAlerts(daLog[i]) = 0

C2_Witness ==
  \E i \in 1..Len(daLog) :
    /\ ~daLog[i].hadFile
    /\ daLog[i].internet
    /\ ~daLog[i].pihole
    /\ daLog[i].alerts = <<MSG_PIHOLE_DOWN>>

\* the service is observed down, up, down in the three runs from i on, and
\* every internet observation equals the internet boolean persisted before
DownUpDown(i) ==
  /\ i + 2 <= Len(daLog)
  /\ ~daLog[i].pihole /\ daLog[i + 1].pihole /\ ~daLog[i + 2].pihole
  /\ HasKey(daLog[i].loaded, "internet")
  /\ \A j \in i..(i + 2) : daLog[j].internet = daLog[i].loaded["internet"]

AlertsFrom(i) ==
  Len(daLog[i].alerts) + Len(daLog[i + 1].alerts) + Len(daLog[i + 2].alerts)

StatusFollows(i) ==
  \A j \in i..(i + 2) :
    /\ HasKey(daLog[j].saved, "pihole_status")
    /\ daLog[j].saved["pihole_status"] = Label(daLog[j].pihole)

\* C8 as stated: down, up, down yields exactly two alerts over the three
\* runs for every starting status, the persisted status following each run.
C8_TwoAlerts ==
  \A i \in 1..Len(daLog) :
    DownUpDown(i) => AlertsFrom(i) = 2 /\ StatusFollows(i)

\* C8 amended: down, up, down yields two alerts when the status persisted
\* before the first run is "down" and three alerts otherwise (status "up",
\* "unknown", the first-run default or no status field); the persisted
\* status equals the observed label after each run.
C8_Scenario ==
  \A i \in 1..Len(daLog) :
    DownUpDown(i) =>
      /\ AlertsFrom(i) =
           (IF /\ HasKey(daLog[i].loaded, "pihole_status")
               /\ daLog[i].loaded["pihole_status"] = "down"
              THEN 2 ELSE 3)
      /\ StatusFollows(i)

C8_Witness ==
  /\ DownUpDown(1)
  /\ ~daLog[1].hadFile
  /\ daLog[1].alerts = <<MSG_PIHOLE_DOWN>>
  /\ daLog[2].alerts = <<MSG_PIHOLE_UP>>
  /\ daLog[3].alerts = <<MSG_PIHOLE_DOWN>>

\* C10: a state file without the internet field is read as internet = true,
\* so observing the internet reachable emits no internet alert; a file
\* without the status field is read as "unknown" (one service alert).
C10_ForwardReadable ==
  \A i \in 1..Len(daLog) :
    daLog[i].hadFile =>
      /\ (~HasKey(daLog[i].loaded, "internet") /\ daLog[i].internet)
            => InternetAlerts(daLog[i]) = 0
      /\ ~HasKey(daLog[i].loaded, "pihole_status")
            => ServiceAlerts(daLog[i]) = 1

\* ------------------------------------------------------------------------
\* Properties of monitor.py
\* ------------------------------------------------------------------------
\* the sample of evaluation e for metric k is a number above the limit of k
Breached(e, k) == e.metrics[k] # None /\ e.metrics[k][1] > THRESHOLDS[k]

\* metric k breaches in evaluations i..j and its flag was false before i
Streak(k, i, j) ==
  /\ 1 <= i /\ i <= j /\ j <= Len(monLog)
  /\ \A l \in i..j : Breached(monLog[l], k)
  /\ ~PrevGet(monLog[i].prev, k)

AllForce(i, j, b) == \A l \in i..j : monLog[l].force = b

Requested(i, j) == Cardinality({l \in i..j : monLog[l].send_alert})

\* in evaluation l > 1 a metric other than k is breached whose flag was
\* false after evaluation l - 1
OtherNewlyBreached(k, l) ==
  \E k2 \in KeySet \ {k} :
    Breached(monLog[l], k2) /\ ~PrevGet(monLog[l - 1].saved, k2)

\* C3 as stated: a metric that breaches in K consecutive evaluations, its
\* flag false before the first, gets exactly one notification request in
\* total (on the first evaluation) when force is false throughout, and one
\* request per evaluation when force is true throughout.
C3_OneNotification ==
  \A k \in KeySet : \A i \in 1..Len(monLog) : \A j \in i..Len(monLog) :
    Streak(k, i, j) =>
      /\ AllForce(i, j, FALSE) => monLog[i].send_alert /\ Requested(i, j) = 1
      /\ AllForce(i, j, TRUE) => Requested(i, j) = j - i + 1

\* C3 amended: with force false throughout, the first breaching evaluation
\* requests a notification and a later one of the K evaluations requests
\* one iff another metric is newly breached in it; with force true
\* throughout, every one of the K evaluations requests a notification.
C3_Hysteresis ==
  \A k \in KeySet : \A i \in 1..Len(monLog) : \A j \in i..Len(monLog) :
    Streak(k, i, j) =>
      /\ AllForce(i, j, FALSE) =>
           /\ monLog[i].send_alert
           /\ \A l \in (i + 1)..j :
                monLog[l].send_alert <=> OtherNewlyBreached(k, l)
      /\ AllForce(i, j, TRUE) => Requested(i, j) = j - i + 1

\* cpu breaches twice in a row without force: one request, on the first
C3_Witness ==
  /\ Len(monLog) = 2
  /\ Streak("cpu", 1, 2)
  /\ AllForce(1, 2, FALSE)
  /\ monLog[1].send_alert
  /\ ~monLog[2].send_alert

\* C4: a metric sampled as null keeps its stored alert flag at the previous
\* value and has no line in the rendered message.
C4_NullSafety ==
  \A l \in 1..Len(monLog) : \A k \in KeySet :
    monLog[l].metrics[k] = None =>
      /\ HasKey(monLog[l].saved, k)
      /\ monLog[l].saved[k] = PrevGet(monLog[l].prev, k)
      /\ \A n \in 1..Len(monLog[l].msg_lines) :
           monLog[l].msg_lines[n][1] # Upper(k)

\* C9: a forced evaluation requests a notification iff at least one metric
\* is breached now, whatever the previous flags were.
C9_ForcedRecheck ==
  \A l \in 1..Len(monLog) :
    monLog[l].force =>
      (monLog[l].send_alert <=> \E k \in KeySet : Breached(monLog[l], k))

\* a forced evaluation of a metric whose flag was already set
C9_Witness ==
  /\ Len(monLog) = 2
  /\ monLog[2].force
  /\ Breached(monLog[2], "ram")
  /\ PrevGet(monLog[2].prev, "ram")
  /\ \A k \in KeySet \ {"ram"} : ~Breached(monLog[2], k)
  /\ monLog[2].send_alert

\* ------------------------------------------------------------------------
\* Properties of maintenance.py
\* ------------------------------------------------------------------------
\* the process of the i-th command of invocation r ended with exit status 0
ExitZero(r, i) == ~r.outcomes[i].raised /\ r.outcomes[i].returncode = 0

\* invocation r is past the write of the state file
Persisted(r) == r.pc \in {"saved", "exited"} /\ r.exit # 1

FailedLines(summary) ==
  Cardinality({i \in 1..Len(summary) : summary[i][2] = "Failed"})

\* of the commands `all` has run, exactly the second one failed
OnlySecondFailed(r) ==
  /\ r.task = "all"
  /\ Len(r.outcomes) >= 2
  /\ \A i \in 1..Len(r.outcomes) : ExitZero(r, i) <=> i # 2

\* C5: when `all` runs and exactly the second sub-task fails, all four
\* sub-tasks run, each has its own record in the state file (success and its
\* own output for the first, third and fourth, failure for the second) and
\* the summary has exactly one failed line.
C5_TaskIsolation ==
  \A p \in Procs :
    (Persisted(mt[p]) /\ OnlySecondFailed(mt[p])) =>
      /\ Len(mt[p].outcomes) = 4
      /\ \A i \in 1..4 :
           LET name == TasksToRun[i]
           IN  /\ HasKey(mtFile, name)
               /\ mtFile[name].last_run = clock - 1
               /\ mtFile[name].success = (i # 2)
               /\ i # 2 => mtFile[name].output = <<"output of", name, "ok">>
      /\ mt[p].pc = "exited" =>
           /\ Len(mt[p].summary) = 4
           /\ FailedLines(mt[p].summary) = 1
           /\ mt[p].summary[2] = <<TasksToRun[2], "Failed">>

C5_Witness ==
  /\ mt["cron"].pc = "exited"
  /\ OnlySecondFailed(mt["cron"])
  /\ mt["cron"].outcomes[2].returncode = 1
  /\ Len(mt["cron"].outcomes) = 4
  /\ FailedLines(mt["cron"].summary) = 1

\* C7: after a run of a single named task, the success of the result and of
\* the persisted record is true iff the process ended with exit status 0.
C7_SuccessIffExitZero ==
  \A p \in Procs :
    (Persisted(mt[p]) /\ mt[p].task # "all") =>
      /\ Len(mt[p].results) = 1
      /\ mt[p].results[1].success <=> ExitZero(mt[p], 1)
      /\ HasKey(mtFile, mt[p].task)
      /\ mtFile[mt[p].task].success <=> ExitZero(mt[p], 1)

C7_Witness ==
  /\ mt["cron"].pc = "exited"
  /\ mt["cron"].task = "gravity"
  /\ mt["cron"].outcomes = <<[raised |-> FALSE, returncode |-> 1]>>
  /\ mtFile["gravity"].success = FALSE

\* ------------------------------------------------------------------------
\* Properties of the maintenance handlers of monitor_bot.py
\* ------------------------------------------------------------------------
\* the handler has run tasks and has sent its result
HandlerDone == botPc = "idle" /\ botResults # <<>> /\ Len(botSent) = 2

\* the administrative command of the i-th task of the handler ended with a
\* non-zero exit status
CommandFailed(i) ==
  /\ botResults[i].ran # <<>>
  /\ ~botResults[i].ran[1].raised
  /\ botResults[i].ran[1].returncode # 0

\* C6: when a task triggered through the control surface has its
\* administrative command exit non-zero, the record persisted for the task
\* when the handler has finished has success = false and the reply marks
\* the task as failed.
C6_FailureSurfaced ==
  HandlerDone =>
    \A i \in 1..Len(botResults) :
      CommandFailed(i) =>
        /\ HasKey(mtFile, botResults[i].name)
        /\ mtFile[botResults[i].name].success = FALSE
        /\ botSent[2].lines[i] [2] = "failed"

\* Scheduled maintenance invocations and task selections of the operator,
\* one run after the other: neither starts while the other is at work.
SeqCronStart == botPc = "idle" /\ CronStart

SeqBotCallback == mt["cron"].pc \in {"off", "exited"} /\ BotCallback

SeqNext ==
  \/ SeqCronStart
  \/ MtRunTask("cron") \/ MtSaveState("cron") \/ MtSummary("cron")
  \/ SeqBotCallback
  \/ BotSpawn \/ BotSpawnFails \/ BotCollect \/ BotReply
  \/ MtRunTask("bot") \/ MtSaveState("bot") \/ MtSummary("bot")

SpecSeq == InitIdle /\ [][SeqNext]_vars

\* One scheduled maintenance invocation and one task selection of the
\* operator, free to overlap: the scheduler and the bot are separate
\* processes and nothing locks the state file.  The configuration is
\* complete and maintenance.py can be started.
OverlapCronStart ==
  /\ mt["cron"].pc = "off"
  /\ CronStart
  /\ mt'["cron"].cfg = "ok"
  /\ ~mt'["cron"].test

OverlapBotCallback == botSent = <<>> /\ BotCallback

OverlapBotSpawn == BotSpawn /\ mt'["bot"].cfg = "ok"

OverlapNext ==
  \/ OverlapCronStart
  \/ MtRunTask("cron") \/ MtSaveState("cron") \/ MtSummary("cron")
  \/ OverlapBotCallback
  \/ OverlapBotSpawn \/ BotCollect \/ BotReply
  \/ MtRunTask("bot") \/ MtSaveState("bot") \/ MtSummary("bot")

SpecOverlap == InitIdle /\ [][OverlapNext]_vars

\* ------------------------------------------------------------------------
\* Configuration errors (SpecOneShot)

\* C11 as stated: in every one-shot invocation a missing configuration file
\* or a missing credential aborts the invocation: no step of it writes a
\* state file, runs a task or hands a message to the notifier.
C11_ConfigFatal ==
  [][ /\ (daCfg' # "ok" =>
            UNCHANGED <<daFileExists, daFile, daSends>>)
      /\ (monCfg' # "ok" =>
            /\ UNCHANGED <<monFileExists, monFile>>
            /\ monSend' = "none")
      /\ (mt'["cron"].cfg # "ok" =>
            /\ UNCHANGED <<mtFileExists, mtFile>>
            /\ mt'["cron"].outcomes = <<>>
            /\ mt'["cron"].send = "none") ]_vars

\* C11 amended: a missing configuration file ends every one-shot invocation
\* before it writes a state file, runs a task or sends anything, and so does
\* a missing credential in down-alert; monitor and maintenance go on without
\* credentials and only deliver no message.
C11_FileFatal ==
  [][ /\ (daCfg' # "ok" =>
            UNCHANGED <<daFileExists, daFile, daSends, daPc>>)
      /\ (monCfg' = "no file" =>
            /\ UNCHANGED <<monFileExists, monFile, monPc>>
            /\ monSend' = "none")
      /\ (monCfg' = "no credentials" => monSend' \in {"none", "skipped", "test"})
      /\ (mt'["cron"].cfg = "no file" =>
            /\ UNCHANGED <<mtFileExists, mtFile>>
            /\ mt'["cron"].outcomes = <<>>
            /\ mt'["cron"].send = "none"
            /\ mt'["cron"].exit = 1)
      /\ (mt'["cron"].cfg = "no credentials" =>
            mt'["cron"].send \in {"none", "test"}) ]_vars

\* a monitor invocation without credentials has written its state and
\* skipped the alert it asked for
C11_Witness ==
  /\ monCfg = "no credentials"
  /\ monPc = "idle"
  /\ monSend = "skipped"
  /\ monFileExists
  /\ monLog # <<>>

\* ------------------------------------------------------------------------
\* Task records (SpecSeq)

\* the records a step writes: those of the results of a maintenance.py
\* process that saves its state, and the one run_task saves
RecordOf(r, now) == [last_run |-> now, success |-> r.success, output |-> r.output]

WrittenBy(p) == {[name |-> mt[p].results[i].name,
                  rec |-> RecordOf(mt[p].results[i], clock)] :
                   i \in 1..Len(mt[p].results)}

\* C12: the store holds at most one record per task name, each a
\* {last_run, success, output} triple; a step that saves the runs of some
\* tasks replaces exactly their records by the triples of those runs and
\* leaves the records of all other task names as they were.
C12_RecordReplaced ==
  [][ LET savers == {p \in Procs : mt[p].pc = "loaded" /\ mt'[p].pc = "saved"}
          byBot == IF Len(botResults') > Len(botResults)
                     THEN {[name |-> botResults'[Len(botResults')].name,
                            rec |-> RecordOf(botResults'[Len(botResults')], clock)]}
                     ELSE {}
          written == UNION {WrittenBy(p) : p \in savers} \cup byBot
          names == {w.name : w \in written}
      IN  /\ DOMAIN mtFile' = DOMAIN mtFile \cup names
          /\ DOMAIN mtFile' \subseteq TaskNames
          /\ \A w \in written : mtFile'[w.name] = w.rec
          /\ \A t \in DOMAIN mtFile \ names : mtFile'[t] = mtFile[t]
          /\ \A t \in DOMAIN mtFile' :
               DOMAIN mtFile'[t] = {"last_run", "success", "output"} ]_vars

\* a scheduled run of all tasks was followed by a run of gravity alone:
\* the record of gravity is the later one, that of os_update the earlier
C12_Witness ==
  /\ mt["cron"].pc = "exited"
  /\ mt["cron"].task = "gravity"
  /\ HasKey(mtFile, "os_update")
  /\ HasKey(mtFile, "gravity")
  /\ mtFile["os_update"].last_run = 1
  /\ mtFile["gravity"].last_run = 2

\* ------------------------------------------------------------------------
\* Status queries (SpecStatus)

\* the alert flags a monitor check would load from the state file
StoredFlags(exists, file) == GetAlerts(MonLoadState(exists, file))

FlagOf(flags, k) == PrevGet(flags, k)

\* a status query whose live check ran, directly followed by a scheduled
\* check without --force
QueryThenScheduled(i) ==
  /\ i + 1 <= Len(monLog)
  /\ monLog[i].by = "bot"
  /\ monLog[i + 1].by = "cron"
  /\ ~monLog[i + 1].force

\* C13 as stated: a status query leaves the persisted alert flags as they
\* were, and the scheduled check after it requests a notification exactly
\* when it would have against the flags stored before the query.
C13_ReadOnly ==
  /\ stPc = "replying" =>
       \A k \in KeySet :
         FlagOf(StoredFlags(monFileExists, monFile), k)
           = FlagOf(StoredFlags(stBefore.exists, stBefore.file), k)
  /\ \A i \in 1..Len(monLog) :
       QueryThenScheduled(i) =>
         monLog[i + 1].send_alert
           = CheckAlerts(monLog[i + 1].metrics, monLog[i].prev, FALSE).send_alert

\* C13 amended: a status query whose forced re-check fails leaves the
\* state file as it was; one whose re-check runs rewrites the file, every
\* flag becoming whether its metric is breached in the query's sample, and
\* the scheduled check after it requests a notification exactly when a
\* metric is breached that was not breached in the query's sample.
C13_QueryRewritesFlags ==
  /\ (stPc = "replying" /\ ~stLive) =>
       /\ monFileExists = stBefore.exists
       /\ monFile = stBefore.file
  /\ (stPc = "replying" /\ stLive) =>
       /\ monLog # <<>>
       /\ monLog[Len(monLog)].by = "bot"
       /\ monLog[Len(monLog)].force
       /\ monFileExists
       /\ \A k \in KeySet :
            FlagOf(StoredFlags(monFileExists, monFile), k)
              = Exceeds(monLog[Len(monLog)].metrics[k], THRESHOLDS[k])
  /\ \A i \in 1..Len(monLog) :
       QueryThenScheduled(i) =>
         monLog[i + 1].send_alert
           = (\E k \in KeySet :
                /\ Exceeds(monLog[i + 1].metrics[k], THRESHOLDS[k])
                /\ ~Exceeds(monLog[i].metrics[k], THRESHOLDS[k]))

\* a status query found cpu breached while its flag was not set; the
\* scheduled check after it finds cpu breached too and stays silent
C13_Witness ==
  /\ Len(monLog) = 2
  /\ QueryThenScheduled(1)
  /\ ~FlagOf(monLog[1].prev, "cpu")
  /\ monLog[1].saved["cpu"]
  /\ Exceeds(monLog[2].metrics["cpu"], THRESHOLDS["cpu"])
  /\ ~monLog[2].send_alert
  /\ stPc = "idle"
  /\ stSent # <<>>

\* C14: when the forced re-check of a status query fails, the handler still
\* replies: first the warning that the data is stale, then the metrics and
\* the check time of the persisted snapshot when there is one, else the
\* notice that no state is available.
C14_StaleReply ==
  [][ (stPc = "replying" /\ stPc' = "idle" /\ ~stLive) =>
        /\ Len(stSent') = 2
        /\ stSent'[1].kind = "stale"
        /\ monFileExists =>
             /\ stSent'[2].kind = "metrics"
             /\ stSent'[2].text.last_check = monFile["last_check"]
             /\ \A k \in KeySet : stSent'[2].text[k] = monFile["metrics"][k]
        /\ ~monFileExists => stSent'[2].kind = "no state" ]_vars

\* a snapshot was persisted, the live check of a later query failed, and
\* the operator got the warning followed by the persisted metrics
C14_Witness ==
  /\ stPc = "idle"
  /\ ~stLive
  /\ monFileExists
  /\ Len(stSent) = 2
  /\ stSent[1].kind = "stale"
  /\ stSent[2].kind = "metrics"
  /\ stSent[2].text.cpu = monFile["metrics"]["cpu"]

\* ------------------------------------------------------------------------
\* The alert message (SpecMonitor)

\* the entries of a message for metric k, the header line aside
EntriesFor(e, k) ==
  {j \in 2..Len(e.msg_lines) : e.msg_lines[j][1] = Upper(k)}

\* C15: the message of an evaluation has, after its header, exactly one
\* entry for every metric breached in that evaluation, showing the sampled
\* value and the limit, and no entry for any other metric, whatever the
\* flags stored before.
C15_MessageLists ==
  \A i \in 1..Len(monLog) :
    LET e == monLog[i]
    IN  /\ e.msg_lines[1] = <<"Monitor Alert">>
        /\ Len(e.msg_lines) = 1 + Cardinality({k \in KeySet : Breached(e, k)})
        /\ \A k \in KeySet :
             IF Breached(e, k)
               THEN \E j \in 2..Len(e.msg_lines) :
                      /\ EntriesFor(e, k) = {j}
                      /\ e.msg_lines[j] = <<Upper(k), e.metrics[k][1], THRESHOLDS[k]>>
               ELSE EntriesFor(e, k) = {}

\* a notification lists cpu, whose flag was already set, and disk, newly
\* breached, and has no entry for ram
C15_Witness ==
  /\ monLog # <<>>
  /\ LET e == monLog[Len(monLog)]
     IN  /\ e.send_alert
         /\ ~e.force
         /\ Breached(e, "cpu") /\ PrevGet(e.prev, "cpu")
         /\ Breached(e, "disk") /\ ~PrevGet(e.prev, "disk")
         /\ ~Breached(e, "ram")
         /\ EntriesFor(e, "cpu") # {}
         /\ EntriesFor(e, "disk") # {}
         /\ EntriesFor(e, "ram") = {}

\* ------------------------------------------------------------------------
\* Order of a task selection (SpecBot)

\* the task names of a selection
Selected(task) == IF task = "all" THEN BotAllTasks ELSE <<task>>

\* C16: in the handling of a task selection the acknowledgement is sent
\* before the process of a task is started, nothing else is sent while
\* tasks are running, and the one result reply follows only when every
\* selected task has finished and has its record in the store.
C16_ReplyOrder ==
  /\ mt["bot"].pc # "off" =>
       /\ botSent # <<>>
       /\ botSent[1] = [kind |-> "running", task |-> botTask,
                        lines |-> <<>>, output |-> <<>>]
  /\ botPc \in {"running", "waiting"} => Len(botSent) = 1
  /\ Len(botSent) <= 2
  /\ Len(botSent) = 2 =>
       /\ botPc = "idle"
       /\ botSent[1].kind = "running"
       /\ botSent[2].kind \in {"all", "single"}
       /\ botTodo = <<>>
       /\ mt["bot"].pc = "off"
       /\ Len(botResults) = Len(Selected(botTask))
       /\ \A i \in 1..Len(botResults) :
            /\ botResults[i].name = Selected(botTask)[i]
            /\ HasKey(mtFile, botResults[i].name)
            /\ mtFile[botResults[i].name]
                 = [last_run |-> botResults[i].log_file[2],
                    success |-> botResults[i].success,
                    output |-> botResults[i].output]

\* `all` was selected: acknowledgement and one result reply were sent, and
\* the four records are in the store
C16_Witness ==
  /\ botPc = "idle"
  /\ botTask = "all"
  /\ Len(botSent) = 2
  /\ botSent[2].kind = "all"
  /\ Len(botSent[2].lines) = 4
  /\ \A t \in TaskNames : HasKey(mtFile, t)

\* ------------------------------------------------------------------------
\* Order of the steps of a scheduled check (SpecOneShot)

\* every step a of the trace s precedes every step b
Before(s, a, b) ==
  \A i \in 1..Len(s), j \in 1..Len(s) : (s[i] = a /\ s[j] = b) => i < j

\* the steps of s occur in the order of names
InOrder(s, names) ==
  \A x \in 1..Len(names), y \in 1..Len(names) :
    x < y => Before(s, names[x], names[y])

Times(s, a) == Cardinality({i \in 1..Len(s) : s[i] = a})

\* a finished invocation has loaded, observed, decided and persisted once
Complete(s) ==
  \A a \in {"load", "observe", "decide", "persist"} : Times(s, a) = 1

ResultsStored(p) ==
  \A i \in 1..Len(mt[p].results) :
    /\ HasKey(mtFile, mt[p].results[i].name)
    /\ mtFile[mt[p].results[i].name].success = mt[p].results[i].success
    /\ mtFile[mt[p].results[i].name].output = mt[p].results[i].output

SameBreaches(e1, e2) == \A k \in KeySet : Breached(e1, k) = Breached(e2, k)

\* C18: a message that could not be delivered stops nothing.  A down-alert
\* run goes on to save once every alert has been attempted; a run with a
\* failed delivery has attempted each alert once, has saved the observed
\* status, and the next run with the same observation alerts nothing.  A
\* monitor run with a failed delivery has its flags in the store, and an
\* unforced run requests no notification when the run before it, delivered
\* or not, saw the same breaches.  A
\* maintenance run whose summary failed has its records in the store and
\* exit status 0.
C18_DeliveryFailure ==
  /\ (daPc = "decided" /\ Len(daSends) = Len(daAlerts)) => ENABLED DaSave
  /\ \A i \in 1..Len(daLog) :
       daLog[i].failed =>
         /\ daLog[i].attempts = Len(daLog[i].alerts)
         /\ daLog[i].saved["pihole_status"] = Label(daLog[i].pihole)
         /\ daLog[i].saved["internet"] = daLog[i].internet
         /\ (/\ i < Len(daLog)
             /\ daLog[i + 1].pihole = daLog[i].pihole
             /\ daLog[i + 1].internet = daLog[i].internet)
              => daLog[i + 1].alerts = <<>>
  /\ (monPc = "idle" /\ monSend = "failed") =>
       /\ Complete(monSteps)
       /\ monFileExists
       /\ \A k \in KeySet :
            FlagOf(GetAlerts(monFile), k) = Breached(monLog[Len(monLog)], k)
  /\ \A i \in 1..Len(monLog) :
       (/\ i < Len(monLog)
        /\ ~monLog[i + 1].force
        /\ SameBreaches(monLog[i], monLog[i + 1]))
         => ~monLog[i + 1].send_alert
  /\ (mt["cron"].pc = "exited" /\ mt["cron"].send = "failed") =>
       /\ mt["cron"].exit = 0
       /\ mtFileExists
       /\ ResultsStored("cron")

\* the service was seen down, the alert could not be delivered, and the
\* next run, seeing it down again, alerted nothing
C18_Witness ==
  /\ Len(daLog) = 2
  /\ daLog[1].failed
  /\ daLog[1].alerts # <<>>
  /\ ~daLog[1].pihole
  /\ ~daLog[2].pihole
  /\ daLog[2].internet = daLog[1].internet
  /\ daLog[2].alerts = <<>>
  /\ daPc = "idle"

\* ------------------------------------------------------------------------
\* Launch failures (SpecSeq)

\* the tasks maintenance.py runs for --task
MtSelected(task) == IF task = "all" THEN TasksToRun ELSE <<task>>

\* run_task could not start maintenance.py for the i-th task of the handler
SpawnFailed(i) == botResults[i].output = SpawnErrorText(botResults[i].name)

\* C19: when the process of a task cannot be launched or read, run_command
\* returns success = false with the text of the exception as output, the
\* run goes on with the remaining tasks of `all`, writes a record with
\* success = false for the task and ends with exit status 0; when run_task
\* cannot start maintenance.py it returns success = false, writes a record
\* with success = false, and the handler goes on with the remaining tasks.
C19_LaunchFailureContained ==
  /\ \A p \in Procs :
       /\ \A i \in 1..Len(mt[p].outcomes) :
            mt[p].outcomes[i].raised =>
              /\ mt[p].results[i].name = MtSelected(mt[p].task)[i]
              /\ mt[p].results[i].success = FALSE
              /\ mt[p].results[i].output = ExceptionText(mt[p].results[i].name)
       /\ mt[p].pc = "saved" =>
            /\ Len(mt[p].results) = Len(MtSelected(mt[p].task))
            /\ \A i \in 1..Len(mt[p].outcomes) :
                 mt[p].outcomes[i].raised =>
                   /\ HasKey(mtFile, mt[p].results[i].name)
                   /\ mtFile[mt[p].results[i].name].success = FALSE
                   /\ mtFile[mt[p].results[i].name].output
                        = ExceptionText(mt[p].results[i].name)
       /\ (mt[p].pc = "exited" /\ mt[p].cfg # "no file") =>
            /\ mt[p].exit = 0
            /\ Len(mt[p].results) = Len(MtSelected(mt[p].task))
  /\ \A i \in 1..Len(botResults) : SpawnFailed(i) => ~botResults[i].success
  /\ (botPc = "running" /\ botResults # <<>> /\ SpawnFailed(Len(botResults))) =>
       LET r == botResults[Len(botResults)]
       IN  /\ HasKey(mtFile, r.name)
           /\ mtFile[r.name] = [last_run |-> r.log_file[2], success |-> FALSE,
                                output |-> SpawnErrorText(r.name)]
  /\ Len(botSent) = 2 => Len(botResults) = Len(Selected(botTask))

\* the second command of a scheduled `all` could not be launched: the four
\* tasks ran, and the record of the second says so
C19_Witness ==
  /\ mt["cron"].pc = "exited"
  /\ mt["cron"].task = "all"
  /\ Len(mt["cron"].outcomes) = 4
  /\ mt["cron"].outcomes[2].raised
  /\ ~mt["cron"].outcomes[3].raised
  /\ mtFile[TasksToRun[2]].success = FALSE
  /\ mtFile[TasksToRun[2]].output = ExceptionText(TasksToRun[2])
  /\ mt["cron"].exit = 0

\* ------------------------------------------------------------------------
\* Overlapping runs of one task (SpecOverlap)

Names(seq) == {seq[i] : i \in 1..Len(seq)}

\* the scheduled invocation and the handler of the selection have ended
BothFinished ==
  /\ mt["cron"].pc = "exited"
  /\ botPc = "idle"
  /\ Len(botSent) = 2
  /\ mt["bot"].pc = "off"

\* task t was run by the scheduled invocation and for the selection
RanByBoth(t) ==
  /\ t \in Names(MtSelected(mt["cron"].task))
  /\ t \in Names(Selected(botTask))

\* the record of t in the store has the success and the output of one and
\* the same run of t
WholeRecord(t) ==
  /\ HasKey(mtFile, t)
  /\ DOMAIN mtFile[t] = {"last_run", "success", "output"}
  /\ \/ \E i \in 1..Len(mt["cron"].results) :
          /\ mt["cron"].results[i].name = t
          /\ mt["cron"].results[i].success = mtFile[t].success
          /\ mt["cron"].results[i].output = mtFile[t].output
     \/ \E i \in 1..Len(botResults) :
          /\ botResults[i].name = t
          /\ botResults[i].success = mtFile[t].success
          /\ botResults[i].output = mtFile[t].output
          /\ botResults[i].log_file[2] = mtFile[t].last_run

\* after overlapping runs the record of a task both have run is never a
\* mixture of the two runs
NoMixture == BothFinished => \A t \in TaskNames : RanByBoth(t) => WholeRecord(t)

\* C20: when a scheduled invocation and a selection of the operator have
\* both run a task and both have finished, the record of the task in the
\* store is the one that was written last for it.
C20_LastWriterWins ==
  BothFinished =>
    \A t \in TaskNames :
      RanByBoth(t) => (HasKey(mtFile, t) /\ mtFile[t] = mtLast[t].rec)

\* ------------------------------------------------------------------------
\* Overlapping runs of different tasks (SpecOverlap)

\* the scheduled invocation and the selection each ran one task, and not
\* the same one
DifferentTasks ==
  /\ mt["cron"].task # "all"
  /\ botTask # "all"
  /\ mt["cron"].task # botTask

\* C21: when a scheduled invocation and a selection of the operator have
\* run different tasks and both have finished, the store holds for each of
\* the two tasks the record its run produced: neither is missing or put
\* back to an older one by the other's write.
C21_NoLostResults ==
  (BothFinished /\ DifferentTasks) =>
    \A t \in {mt["cron"].task, botTask} :
      /\ HasKey(mtFile, t)
      /\ HasKey(mtLast, t)
      /\ mtFile[t] = mtLast[t].rec

\* ------------------------------------------------------------------------
\* The persisted alert flags (SpecMonitor)

\* C22: once an evaluation has saved its state, the stored flag of every
\* metric of the snapshot is true exactly when the value just sampled for
\* it is above its limit; a value at the limit, or no value, gives false.
C22_FlagsFollowSample ==
  /\ monPc = "saved" =>
       /\ monFileExists
       /\ DOMAIN monFile["metrics"] = KeySet
       /\ DOMAIN monFile["alerts"] = KeySet
       /\ \A k \in KeySet :
            /\ monFile["metrics"][k] = monMetrics[k]
            /\ monFile["alerts"][k]
                 = (monMetrics[k] # None /\ monMetrics[k][1] > THRESHOLDS[k])
  /\ \A l \in 1..Len(monLog) :
       /\ DOMAIN monLog[l].saved = KeySet
       /\ \A k \in KeySet : monLog[l].saved[k] = Breached(monLog[l], k)
  /\ (monPc = "idle" /\ monLog # <<>>) =>
       \A k \in KeySet :
         FlagOf(GetAlerts(monFile), k) = Breached(monLog[Len(monLog)], k)

\* after an evaluation with cpu at its limit, ram above its limit and no
\* temperature, whose flags were all set before: only the flag of ram is set
C22_Witness ==
  /\ monPc = "idle"
  /\ Len(monLog) = 2
  /\ \A k \in {"cpu", "ram", "temp"} : PrevGet(monLog[2].prev, k)
  /\ monLog[2].metrics["cpu"] = <<85>>
  /\ monLog[2].metrics["ram"] = <<91>>
  /\ monLog[2].metrics["temp"] = None
  /\ ~monFile["alerts"]["cpu"]
  /\ monFile["alerts"]["ram"]
  /\ ~monFile["alerts"]["temp"]

\* ------------------------------------------------------------------------
\* Liveness of the control surface (SpecLive)

\* C23: every task selection whose handler has started leads to the result
\* reply and the handler's end, and every status query whose handler has
\* started leads to a reply and the handler's end, whatever the tasks and
\* the live check do, as long as the processes started come to an end.
C23_HandlersReply ==
  /\ (botPc # "idle") ~> (botPc = "idle" /\ Len(botSent) = 2)
  /\ (stPc # "idle") ~> (stPc = "idle" /\ stSent # <<>>)

\* maintenance.py could not be started for the selected task, and the
\* operator got the reply that marks the task as failed
C23_Witness ==
  /\ botPc = "idle"
  /\ botTask # "all"
  /\ Len(botSent) = 2
  /\ Len(botResults) = 1
  /\ SpawnFailed(1)
  /\ botSent[2].kind = "single"
  /\ botSent[2].lines[1][2] = Mark(FALSE)

====
